---------------------------- MODULE Spec2Model ----------------------------
(***************************************************************************)
(* A model of the custody-verification and chain-bookkeeping core of       *)
(* ptokens-core: the block-record and minting-params codecs and the        *)
(* network codec (src/btc/btc_utils.rs), the p2sh deposit filter           *)
(* (src/btc/filter_p2sh_deposit_txs.rs, src/btc/get_deposit_info_hash_map  *)
(* .rs), the destination-chain initialisation steps                        *)
(* (src/eth/initialize_eth/eth_init_utils.rs) and the block-pointer        *)
(* tracker of spec section 4.5.                                            *)
(*                                                                         *)
(* Conventions.                                                            *)
(*  - Bytes are sequences over 0..255.                                     *)
(*  - A Rust Result is a record [ok, val]: Ok(v) or Err(e), e a string.    *)
(*  - A JSON text is modelled by the document it denotes (objects are      *)
(*    sequences of members in emission order, looked up by name when       *)
(*    read); a text that does not parse is [wellformed |-> FALSE].         *)
(*  - hash160 is an ideal hash: the digest of a script is a symbolic term  *)
(*    over the script, so two digests are equal iff the scripts are.       *)
(***************************************************************************)
EXTENDS Integers, Sequences, FiniteSets, TLC

(***************************************************************************)
(* Bounds of the model.                                                    *)
(***************************************************************************)
\* longest minting-params list attached to a block record
MaxMintingParams == 2
\* most transactions in a block handed to the deposit filter
MaxTxs == 2
\* highest block height ingested by the pointer tracker
MaxHeight == 6
\* largest confirmation depth (canon_to_tip_length) configured
MaxDepth == 3

(***************************************************************************)
(* Program constants.                                                      *)
(***************************************************************************)
\* width of the integer encoding of heights and network ids
U64_NUM_BYTES == 8
\* length of a sha256d digest (block id, originating tx hash)
HASH_LEN == 32
\* length of a destination-chain address
ETH_ADDRESS_LEN == 20

(***************************************************************************)
(* The state.                                                              *)
(***************************************************************************)
VARIABLES
    block_in_db_format,          \* the record handed to the codec
    serialized,                  \* Result of serialize_btc_block_in_db_format: [key, payload]
    stored_payload,              \* the payload as the store hands it back
    corruption,                  \* which part of the stored payload was damaged, or "none"
    deserialized,                \* Result of deserialize_btc_block_in_db_format
    minting_params_bytes,   \* Result of serialize_minting_params
    deserialized_minting_params, \* Result of deserialize_minting_params
    btc_network,                 \* the network handed to the network codec
    network_bytes,               \* Result of convert_btc_network_to_bytes
    network_from_bytes           \* Result of convert_bytes_to_btc_network

codecVars == <<block_in_db_format, serialized, stored_payload, corruption, deserialized,
               minting_params_bytes, deserialized_minting_params,
               btc_network, network_bytes, network_from_bytes>>

VARIABLES
    block_deposit_info_list,       \* the block's deposit info list
    deposit_info_hash_map,   \* Result of create_hash_map_from_deposit_info_list
    enclave_public_key,      \* the enclave's public key slice
    filter_network,          \* the network the filter runs on
    transactions,            \* the block's transactions
    p2sh_deposit_txs,        \* Result of filter_p2sh_deposit_txs
    candidate_address,       \* the address handed to is_address_locked_to_pub_key
    address_locked           \* Result of is_address_locked_to_pub_key

filterVars == <<block_deposit_info_list, deposit_info_hash_map, enclave_public_key,
                filter_network, transactions, p2sh_deposit_txs,
                candidate_address, address_locked>>

VARIABLES
    setup_block,          \* the block supplied at bridge setup: Ok(block), or an error if none
    configured_canon_to_tip_length,  \* the configured confirmation depth
    eth_state,            \* EthState: [db, eth_block_and_receipts]
    init_steps_done,      \* the initialisation steps that returned Ok
    init_error            \* the first error an initialisation step returned

chainVars == <<setup_block, configured_canon_to_tip_length, eth_state, init_steps_done, init_error>>

VARIABLES
    call,                 \* the last call of a stateless function: [op, args]
    outcome               \* what that call returned, or that it aborted

callVars == <<call, outcome>>

vars == <<codecVars, filterVars, chainVars, callVars>>

(***************************************************************************)
(* Results and byte helpers.                                               *)
(***************************************************************************)
Ok(v) == [ok |-> TRUE, val |-> v]

Err(e) == [ok |-> FALSE, val |-> e]

NotRun == Err("not_run")

HasRun(r) == r.ok \/ r.val # "not_run"

Failed(r) == ~r.ok /\ r.val # "not_run"

Reverse(s) == [i \in 1..Len(s) |-> s[Len(s) + 1 - i]]

Repeat(b, n) == [i \in 1..n |-> b]

RECURSIVE Flatten(_)
Flatten(ss) == IF ss = <<>> THEN <<>> ELSE Head(ss) \o Flatten(Tail(ss))

RECURSIVE SeqsUpTo(_, _)
SeqsUpTo(S, n) ==
    IF n = 0 THEN {<<>>}
    ELSE LET shorter == SeqsUpTo(S, n - 1)
         IN  shorter \cup {Append(s, x) : s \in {t \in shorter : Len(t) = n - 1}, x \in S}

(***************************************************************************)
(* utils::convert_u64_to_bytes / convert_bytes_to_u64: the 8-byte          *)
(* little-endian encoding of an unsigned integer.                          *)
(***************************************************************************)
RECURSIVE le_digits(_, _)
le_digits(n, k) == IF k = 0 THEN <<>> ELSE <<n % 256>> \o le_digits(n \div 256, k - 1)

RECURSIVE le_value(_)
le_value(bytes) == IF bytes = <<>> THEN 0 ELSE Head(bytes) + 256 * le_value(Tail(bytes))

convert_u64_to_bytes(n) == le_digits(n, U64_NUM_BYTES)

convert_bytes_to_u64(bytes) ==
    IF Len(bytes) < U64_NUM_BYTES THEN Err("not enough bytes to convert to u64")
    ELSE IF Len(bytes) > U64_NUM_BYTES THEN Err("too many bytes to convert to u64")
    ELSE Ok(le_value(bytes))

(***************************************************************************)
(* Hex text, as the serde implementations of the field types write it.     *)
(***************************************************************************)
hex_encode(bytes) ==
    [i \in 1..(2 * Len(bytes)) |->
        IF i % 2 = 1 THEN bytes[(i + 1) \div 2] \div 16 ELSE bytes[i \div 2] % 16]

hex_decode(digits) ==
    IF Len(digits) % 2 # 0 THEN Err("odd number of hex digits")
    ELSE Ok([i \in 1..(Len(digits) \div 2) |-> 16 * digits[2 * i - 1] + digits[2 * i]])

RECURSIVE hex_digits_of(_)
hex_digits_of(n) == IF n < 16 THEN <<n>> ELSE Append(hex_digits_of(n \div 16), n % 16)

RECURSIVE hex_value(_)
hex_value(digits) ==
    IF digits = <<>> THEN 0
    ELSE 16 * hex_value(SubSeq(digits, 1, Len(digits) - 1)) + digits[Len(digits)]


HEX_CHARS == <<"0", "1", "2", "3", "4", "5", "6", "7", "8", "9", "a", "b", "c", "d", "e", "f">>

is_hex_char(c) == \E i \in 1..16 : HEX_CHARS[i] = c

hex_digit(c) == (CHOOSE i \in 1..16 : HEX_CHARS[i] = c) - 1

to_hex_text(digits) == [i \in 1..Len(digits) |-> HEX_CHARS[digits[i] + 1]]

from_hex_text(chars) ==
    IF \A i \in 1..Len(chars) : is_hex_char(chars[i])
    THEN Ok([i \in 1..Len(chars) |-> hex_digit(chars[i])])
    ELSE Err("invalid hex character")

has_0x_prefix(chars) == Len(chars) >= 2 /\ chars[1] = "0" /\ chars[2] = "x"

strip_0x(chars) == SubSeq(chars, 3, Len(chars))

\* U256 amount: "0x" and the hex digits without leading zeros
u256_to_json(n) == <<"0", "x">> \o to_hex_text(hex_digits_of(n))

u256_from_json(chars) ==
    IF ~has_0x_prefix(chars) \/ Len(chars) = 2 THEN Err("invalid U256")
    ELSE LET d == from_hex_text(strip_0x(chars))
         IN  IF d.ok THEN Ok(hex_value(d.val)) ELSE d

\* destination-chain address: "0x" and 40 hex digits
eth_address_to_json(bytes) == <<"0", "x">> \o to_hex_text(hex_encode(bytes))

eth_address_from_json(chars) ==
    IF ~has_0x_prefix(chars) THEN Err("invalid eth address")
    ELSE LET d == from_hex_text(strip_0x(chars))
         IN  IF ~d.ok THEN d
             ELSE LET b == hex_decode(d.val)
                  IN  IF b.ok /\ Len(b.val) # ETH_ADDRESS_LEN
                      THEN Err("invalid eth address length") ELSE b

\* mutant of sha256d_to_json: the digest written in storage order
sha256d_to_json_unreversed(hash) == to_hex_text(hex_encode(hash))

\* sha256d digest: 64 hex digits of the bytes in reverse order
sha256d_to_json(hash) == to_hex_text(hex_encode(Reverse(hash)))

sha256d_from_json(chars) ==
    LET d == from_hex_text(chars)
    IN  IF ~d.ok THEN d
        ELSE LET b == hex_decode(d.val)
             IN  IF ~b.ok THEN b
                 ELSE IF Len(b.val) # HASH_LEN THEN Err("invalid hash length")
                 ELSE Ok(Reverse(b.val))

\* sha256d::Hash::from_slice
sha256d_from_slice(bytes) ==
    IF Len(bytes) = HASH_LEN THEN Ok(bytes) ELSE Err("invalid hash length")

(***************************************************************************)
(* serde_json: to_vec writes a wellformed text holding the document;       *)
(* from_slice fails on a text that does not parse.  A struct is an object  *)
(* whose members are read by name.                                         *)
(***************************************************************************)
json_to_vec(doc) == [wellformed |-> TRUE, doc |-> doc]

MalformedJson == [wellformed |-> FALSE, doc |-> <<>>]

json_member(obj, name) ==
    LET at == {i \in 1..Len(obj) : obj[i].name = name}
    IN  IF Cardinality(at) = 1 THEN Ok(obj[CHOOSE i \in at : TRUE].value)
        ELSE Err("missing or duplicate field")

(***************************************************************************)
(* serialize_minting_params / deserialize_minting_params.                  *)
(***************************************************************************)
minting_param_to_json(p) ==
    << [name |-> "amount", value |-> u256_to_json(p.amount)],
       [name |-> "eth_address", value |-> eth_address_to_json(p.eth_address)],
       [name |-> "originating_tx_hash", value |-> sha256d_to_json(p.originating_tx_hash)],
       [name |-> "originating_tx_address", value |-> p.originating_tx_address] >>

minting_param_from_json(obj) ==
    LET amount  == json_member(obj, "amount")
        eth     == json_member(obj, "eth_address")
        hash    == json_member(obj, "originating_tx_hash")
        address == json_member(obj, "originating_tx_address")
    IN  IF ~amount.ok THEN amount
        ELSE IF ~eth.ok THEN eth
        ELSE IF ~hash.ok THEN hash
        ELSE IF ~address.ok THEN address
        ELSE LET a == u256_from_json(amount.val)
                 e == eth_address_from_json(eth.val)
                 h == sha256d_from_json(hash.val)
             IN  IF ~a.ok THEN a
                 ELSE IF ~e.ok THEN e
                 ELSE IF ~h.ok THEN h
                 ELSE Ok([amount |-> a.val,
                          eth_address |-> e.val,
                          originating_tx_hash |-> h.val,
                          originating_tx_address |-> address.val])

serialize_minting_params(minting_params) ==
    Ok(json_to_vec([i \in 1..Len(minting_params) |-> minting_param_to_json(minting_params[i])]))

deserialize_minting_params(serialized_minting_params) ==
    IF ~serialized_minting_params.wellformed THEN Err("json error")
    ELSE LET doc == serialized_minting_params.doc
             each == [i \in 1..Len(doc) |-> minting_param_from_json(doc[i])]
         IN  IF \E i \in 1..Len(doc) : ~each[i].ok
             THEN each[CHOOSE i \in 1..Len(doc) :
                          ~each[i].ok /\ \A j \in 1..(i - 1) : each[j].ok]
             ELSE Ok([i \in 1..Len(doc) |-> each[i].val])

(***************************************************************************)
(* bitcoin::consensus::encode::serialize / deserialize of a block: a       *)
(* length-prefixed encoding; deserialize fails on a truncated encoding     *)
(* and on bytes left over.                                                 *)
(***************************************************************************)
btc_serialize(block) ==
    <<block.version, Len(block.txdata)>>
        \o Flatten([i \in 1..Len(block.txdata) |->
                        <<Len(block.txdata[i])>> \o block.txdata[i]])

RECURSIVE btc_parse_txs(_, _)
btc_parse_txs(bytes, n) ==
    IF n = 0 THEN [ok |-> TRUE, val |-> <<>>, rest |-> bytes]
    ELSE IF bytes = <<>> \/ Len(bytes) < 1 + Head(bytes)
         THEN [ok |-> FALSE, val |-> <<>>, rest |-> <<>>]
    ELSE LET tx   == SubSeq(bytes, 2, 1 + Head(bytes))
             more == btc_parse_txs(SubSeq(bytes, 2 + Head(bytes), Len(bytes)), n - 1)
         IN  [ok |-> more.ok, val |-> <<tx>> \o more.val, rest |-> more.rest]

btc_deserialize(bytes) ==
    IF Len(bytes) < 2 THEN Err("unexpected end of block")
    ELSE LET txs == btc_parse_txs(SubSeq(bytes, 3, Len(bytes)), bytes[2])
         IN  IF ~txs.ok THEN Err("unexpected end of block")
             ELSE IF txs.rest # <<>> THEN Err("data not consumed entirely")
             ELSE Ok([version |-> bytes[1], txdata |-> txs.val])

(***************************************************************************)
(* serialize_btc_block_in_db_format / deserialize_btc_block_in_db_format.  *)
(***************************************************************************)
BtcBlockInDbFormat_new(height, id, minting_params, block, extra_data) ==
    Ok([id |-> id, block |-> block, height |-> height,
        extra_data |-> extra_data, minting_params |-> minting_params])

SerializedBlockInDbFormat_new(serialized_id, serialized_block, serialized_height, serialized_extra_data, serialized_minting_params) ==
    << [name |-> "id", value |-> serialized_id],
       [name |-> "block", value |-> serialized_block],
       [name |-> "height", value |-> serialized_height],
       [name |-> "extra_data", value |-> serialized_extra_data],
       [name |-> "minting_params", value |-> serialized_minting_params] >>

\* mutants of serialize_btc_block_in_db_format: the block and the height handed to
\* SerializedBlockInDbFormat::new in each other's place; the key taken in display
\* (reversed) byte order
serialize_btc_block_in_db_format_swapped(btc_block_in_db_format) ==
    LET serialized_id == btc_block_in_db_format.id
        params == serialize_minting_params(btc_block_in_db_format.minting_params)
    IN  IF ~params.ok THEN params
        ELSE Ok([key |-> serialized_id,
                 payload |-> json_to_vec(SerializedBlockInDbFormat_new(
                                 serialized_id,
                                 convert_u64_to_bytes(btc_block_in_db_format.height),
                                 btc_serialize(btc_block_in_db_format.block),
                                 btc_block_in_db_format.extra_data,
                                 params.val))])

serialize_btc_block_in_db_format_reversed_key(btc_block_in_db_format) ==
    LET serialized_id == btc_block_in_db_format.id
        params == serialize_minting_params(btc_block_in_db_format.minting_params)
    IN  IF ~params.ok THEN params
        ELSE Ok([key |-> Reverse(serialized_id),
                 payload |-> json_to_vec(SerializedBlockInDbFormat_new(
                                 serialized_id,
                                 btc_serialize(btc_block_in_db_format.block),
                                 convert_u64_to_bytes(btc_block_in_db_format.height),
                                 btc_block_in_db_format.extra_data,
                                 params.val))])

serialize_btc_block_in_db_format(btc_block_in_db_format) ==
    LET serialized_id == btc_block_in_db_format.id
        params == serialize_minting_params(btc_block_in_db_format.minting_params)
    IN  IF ~params.ok THEN params
        ELSE Ok([key |-> serialized_id,
                 payload |-> json_to_vec(SerializedBlockInDbFormat_new(
                                 serialized_id,
                                 btc_serialize(btc_block_in_db_format.block),
                                 convert_u64_to_bytes(btc_block_in_db_format.height),
                                 btc_block_in_db_format.extra_data,
                                 params.val))])

\* mutant of deserialize_btc_block_in_db_format: the height is read from however
\* many bytes there are
deserialize_btc_block_in_db_format_any_height(serialized_block_in_db_format) ==
    IF ~serialized_block_in_db_format.wellformed THEN Err("json error")
    ELSE LET obj == serialized_block_in_db_format.doc
             f_id     == json_member(obj, "id")
             f_block  == json_member(obj, "block")
             f_height == json_member(obj, "height")
             f_extra  == json_member(obj, "extra_data")
             f_params == json_member(obj, "minting_params")
         IN  IF ~f_id.ok THEN f_id
             ELSE IF ~f_block.ok THEN f_block
             ELSE IF ~f_height.ok THEN f_height
             ELSE IF ~f_extra.ok THEN f_extra
             ELSE IF ~f_params.ok THEN f_params
             ELSE LET id     == sha256d_from_slice(f_id.val)
                      params == deserialize_minting_params(f_params.val)
                      block  == btc_deserialize(f_block.val)
                  IN  IF ~id.ok THEN id
                      ELSE IF ~params.ok THEN params
                      ELSE IF ~block.ok THEN block
                      ELSE BtcBlockInDbFormat_new(le_value(f_height.val), id.val,
                                                  params.val, block.val, f_extra.val)

deserialize_btc_block_in_db_format(serialized_block_in_db_format) ==
    IF ~serialized_block_in_db_format.wellformed THEN Err("json error")
    ELSE LET obj == serialized_block_in_db_format.doc
             f_id     == json_member(obj, "id")
             f_block  == json_member(obj, "block")
             f_height == json_member(obj, "height")
             f_extra  == json_member(obj, "extra_data")
             f_params == json_member(obj, "minting_params")
         IN  IF ~f_id.ok THEN f_id
             ELSE IF ~f_block.ok THEN f_block
             ELSE IF ~f_height.ok THEN f_height
             ELSE IF ~f_extra.ok THEN f_extra
             ELSE IF ~f_params.ok THEN f_params
             ELSE LET height == convert_bytes_to_u64(f_height.val)
                      id     == sha256d_from_slice(f_id.val)
                      params == deserialize_minting_params(f_params.val)
                      block  == btc_deserialize(f_block.val)
                  IN  IF ~height.ok THEN height
                      ELSE IF ~id.ok THEN id
                      ELSE IF ~params.ok THEN params
                      ELSE IF ~block.ok THEN block
                      ELSE BtcBlockInDbFormat_new(height.val, id.val, params.val,
                                                  block.val, f_extra.val)

(***************************************************************************)
(* convert_btc_network_to_bytes / convert_bytes_to_btc_network.            *)
(***************************************************************************)
BtcNetworks == {"Bitcoin", "Testnet", "Regtest"}

\* mutant of convert_btc_network_to_bytes: Regtest encoded as Testnet
convert_btc_network_to_bytes_regtest_as_testnet(network) ==
    CASE network = "Bitcoin" -> Ok(convert_u64_to_bytes(0))
      [] network = "Testnet" -> Ok(convert_u64_to_bytes(1))
      [] network = "Regtest" -> Ok(convert_u64_to_bytes(1))

convert_btc_network_to_bytes(network) ==
    CASE network = "Bitcoin" -> Ok(convert_u64_to_bytes(0))
      [] network = "Testnet" -> Ok(convert_u64_to_bytes(1))
      [] network = "Regtest" -> Ok(convert_u64_to_bytes(2))

\* mutant of convert_bytes_to_btc_network: an unrecognized value is an error
convert_bytes_to_btc_network_strict(bytes) ==
    LET n == convert_bytes_to_u64(bytes)
    IN  IF ~n.ok THEN n
        ELSE CASE n.val = 0 -> Ok("Bitcoin")
               [] n.val = 1 -> Ok("Testnet")
               [] n.val = 2 -> Ok("Regtest")
               [] OTHER     -> Err("unrecognized network")

convert_bytes_to_btc_network(bytes) ==
    LET n == convert_bytes_to_u64(bytes)
    IN  IF ~n.ok THEN n
        ELSE CASE n.val = 1 -> Ok("Testnet")
               [] n.val = 2 -> Ok("Regtest")
               [] OTHER     -> Ok("Bitcoin")

(***************************************************************************)
(* State of the codec runs: a block record is serialized, its payload is   *)
(* stored (and may be damaged in the store), and is read back; the         *)
(* record's minting params and the network id go through their own codecs. *)
(***************************************************************************)
\* inputs of the codec runs
BlockIds == {[i \in 1..HASH_LEN |-> i], Repeat(171, HASH_LEN)}

Heights == {0, 300, 70000}

BtcBlocks ==
    { [version |-> 1, txdata |-> <<>>],
      [version |-> 2, txdata |-> << <<1, 0, 7>>, <<>> >>] }

ExtraData == {<<>>, <<0, 255>>}

MintingParamStructs ==
    { [amount |-> 0,
       eth_address |-> Repeat(0, ETH_ADDRESS_LEN),
       originating_tx_hash |-> [i \in 1..HASH_LEN |-> 8 * i - 1],
       originating_tx_address |-> <<"2", "N", "2", "L">>],
      [amount |-> 13370000,
       eth_address |-> [i \in 1..ETH_ADDRESS_LEN |-> 235 + i],
       originating_tx_hash |-> Repeat(152, HASH_LEN),
       originating_tx_address |-> <<"m", "u", "d", "z">>] }

MintingParamsLists == SeqsUpTo(MintingParamStructs, MaxMintingParams)

BlockRecords ==
    [id : BlockIds, block : BtcBlocks, height : Heights,
     extra_data : ExtraData, minting_params : MintingParamsLists]

Corruptions == {"envelope", "height", "id", "minting_params", "block"}

with_member(obj, name, v) ==
    [i \in 1..Len(obj) |->
        IF obj[i].name = name THEN [name |-> name, value |-> v] ELSE obj[i]]

drop_last(bytes) == SubSeq(bytes, 1, Len(bytes) - 1)

\* a stored payload with one part damaged
corrupted(payload, kind) ==
    LET obj == payload.doc
    IN  CASE kind = "envelope" -> MalformedJson
          [] kind = "minting_params" ->
                json_to_vec(with_member(obj, "minting_params", MalformedJson))
          [] OTHER ->
                json_to_vec(with_member(obj, kind, drop_last(json_member(obj, kind).val)))

CodecInit ==
    /\ block_in_db_format \in BlockRecords
    /\ serialized = NotRun
    /\ stored_payload = MalformedJson
    /\ corruption = "none"
    /\ deserialized = NotRun
    /\ minting_params_bytes = NotRun
    /\ deserialized_minting_params = NotRun
    /\ btc_network \in BtcNetworks
    /\ network_bytes = NotRun
    /\ network_from_bytes = NotRun

SerializeBlock ==
    /\ ~HasRun(serialized)
    /\ serialized' = serialize_btc_block_in_db_format(block_in_db_format)
    /\ stored_payload' = IF serialized'.ok THEN serialized'.val.payload ELSE stored_payload
    /\ UNCHANGED <<block_in_db_format, corruption, deserialized,
                   minting_params_bytes, deserialized_minting_params,
                   btc_network, network_bytes, network_from_bytes>>
    /\ UNCHANGED <<filterVars, chainVars, callVars>>

CorruptStoredPayload ==
    /\ serialized.ok
    /\ corruption = "none"
    /\ ~HasRun(deserialized)
    /\ \E kind \in Corruptions :
          /\ corruption' = kind
          /\ stored_payload' = corrupted(stored_payload, kind)
    /\ UNCHANGED <<block_in_db_format, serialized, deserialized,
                   minting_params_bytes, deserialized_minting_params,
                   btc_network, network_bytes, network_from_bytes>>
    /\ UNCHANGED <<filterVars, chainVars, callVars>>

DeserializeBlock ==
    /\ serialized.ok
    /\ ~HasRun(deserialized)
    /\ deserialized' = deserialize_btc_block_in_db_format(stored_payload)
    /\ UNCHANGED <<block_in_db_format, serialized, stored_payload, corruption,
                   minting_params_bytes, deserialized_minting_params,
                   btc_network, network_bytes, network_from_bytes>>
    /\ UNCHANGED <<filterVars, chainVars, callVars>>

SerializeMintingParams ==
    /\ ~HasRun(minting_params_bytes)
    /\ minting_params_bytes' = serialize_minting_params(block_in_db_format.minting_params)
    /\ UNCHANGED <<block_in_db_format, serialized, stored_payload, corruption, deserialized,
                   deserialized_minting_params, btc_network, network_bytes,
                   network_from_bytes>>
    /\ UNCHANGED <<filterVars, chainVars, callVars>>

DeserializeMintingParams ==
    /\ minting_params_bytes.ok
    /\ ~HasRun(deserialized_minting_params)
    /\ deserialized_minting_params' =
           deserialize_minting_params(minting_params_bytes.val)
    /\ UNCHANGED <<block_in_db_format, serialized, stored_payload, corruption, deserialized,
                   minting_params_bytes, btc_network, network_bytes,
                   network_from_bytes>>
    /\ UNCHANGED <<filterVars, chainVars, callVars>>

ConvertNetworkToBytes ==
    /\ ~HasRun(network_bytes)
    /\ network_bytes' = convert_btc_network_to_bytes(btc_network)
    /\ UNCHANGED <<block_in_db_format, serialized, stored_payload, corruption, deserialized,
                   minting_params_bytes, deserialized_minting_params,
                   btc_network, network_from_bytes>>
    /\ UNCHANGED <<filterVars, chainVars, callVars>>

ConvertBytesToNetwork ==
    /\ network_bytes.ok
    /\ ~HasRun(network_from_bytes)
    /\ network_from_bytes' = convert_bytes_to_btc_network(network_bytes.val)
    /\ UNCHANGED <<block_in_db_format, serialized, stored_payload, corruption, deserialized,
                   minting_params_bytes, deserialized_minting_params,
                   btc_network, network_bytes>>
    /\ UNCHANGED <<filterVars, chainVars, callVars>>

CodecNext ==
    \/ SerializeBlock
    \/ CorruptStoredPayload
    \/ DeserializeBlock
    \/ SerializeMintingParams
    \/ DeserializeMintingParams
    \/ ConvertNetworkToBytes
    \/ ConvertBytesToNetwork

(***************************************************************************)
(* Scripts.  A script is a sequence of instructions [op, data]; pushed     *)
(* data is a term [h160, bytes]: raw bytes, or the hash160 digest of       *)
(* bytes (an ideal hash: equal digests have equal preimages).              *)
(***************************************************************************)
\* opcode bytes of the redeem script
OP_DROP == 117
OP_CHECKSIG == 172
\* length of a hash160 digest
H160_LEN == 20

Raw(bytes) == [h160 |-> FALSE, bytes |-> bytes]

hash160(bytes) == [h160 |-> TRUE, bytes |-> bytes]

data_len(term) == IF term.h160 THEN H160_LEN ELSE Len(term.bytes)

push_slice(script, term) == Append(script, [op |-> "PUSH", data |-> term])

push_opcode(script, op) == Append(script, [op |-> op, data |-> Raw(<<>>)])

opcode_byte(op) ==
    CASE op = "OP_DROP" -> OP_DROP
      [] op = "OP_CHECKSIG" -> OP_CHECKSIG

\* Script::as_bytes of a script of raw pushes and opcodes
script_as_bytes(script) ==
    Flatten([i \in 1..Len(script) |->
                IF script[i].op = "PUSH"
                THEN <<Len(script[i].data.bytes)>> \o script[i].data.bytes
                ELSE <<opcode_byte(script[i].op)>>])

\* mutant of get_p2sh_redeem_script_sig: the derivation hash is not pushed
get_p2sh_redeem_script_sig_without_hash(utxo_spender_pub_key_slice, eth_address_and_nonce_hash) ==
    push_opcode(
        push_slice(push_opcode(<<>>, "OP_DROP"), Raw(utxo_spender_pub_key_slice)),
        "OP_CHECKSIG")

get_p2sh_redeem_script_sig(utxo_spender_pub_key_slice, eth_address_and_nonce_hash) ==
    push_opcode(
        push_slice(
            push_opcode(
                push_slice(<<>>, Raw(eth_address_and_nonce_hash)),
                "OP_DROP"),
            Raw(utxo_spender_pub_key_slice)),
        "OP_CHECKSIG")

\* Script::is_p2sh: OP_HASH160, a push of 20 bytes, OP_EQUAL
is_p2sh(script) ==
    /\ Len(script) = 3
    /\ script[1].op = "OP_HASH160"
    /\ script[2].op = "PUSH" /\ data_len(script[2].data) = H160_LEN
    /\ script[3].op = "OP_EQUAL"

\* Script::is_p2pkh: OP_DUP, OP_HASH160, a push of 20 bytes, OP_EQUALVERIFY, OP_CHECKSIG
is_p2pkh(script) ==
    /\ Len(script) = 5
    /\ script[1].op = "OP_DUP"
    /\ script[2].op = "OP_HASH160"
    /\ script[3].op = "PUSH" /\ data_len(script[3].data) = H160_LEN
    /\ script[4].op = "OP_EQUALVERIFY"
    /\ script[5].op = "OP_CHECKSIG"

\* Address::p2sh: the script-hash address of a redeem script
BtcAddress_p2sh(script, network) ==
    [kind |-> "ScriptHash", hash |-> hash160(script_as_bytes(script)), network |-> network]

\* Address::from_script: Some(address) of a p2pkh or p2sh locking script, else None
BtcAddress_from_script(script, network) ==
    IF is_p2pkh(script)
    THEN Ok([kind |-> "PubkeyHash", hash |-> script[3].data, network |-> network])
    ELSE IF is_p2sh(script)
    THEN Ok([kind |-> "ScriptHash", hash |-> script[2].data, network |-> network])
    ELSE Err("None")

\* Address::script_pubkey: the locking script paying to an address
script_pubkey_of(address) ==
    IF address.kind = "ScriptHash"
    THEN push_opcode(push_slice(push_opcode(<<>>, "OP_HASH160"), address.hash), "OP_EQUAL")
    ELSE push_opcode(push_opcode(push_slice(push_opcode(push_opcode(<<>>,
             "OP_DUP"), "OP_HASH160"), address.hash), "OP_EQUALVERIFY"), "OP_CHECKSIG")

(***************************************************************************)
(* create_hash_map_from_deposit_info_list: the registry, a function from   *)
(* deposit address to deposit info; a later entry replaces an earlier one  *)
(* with the same address.                                                  *)
(***************************************************************************)
EmptyHashMap == [a \in {} |-> 0]

hash_map_insert(hash_map, key, value) ==
    [a \in (DOMAIN hash_map) \cup {key} |-> IF a = key THEN value ELSE hash_map[a]]

RECURSIVE insert_all(_, _)
insert_all(hash_map, deposit_info_list) ==
    IF deposit_info_list = <<>> THEN hash_map
    ELSE insert_all(
            hash_map_insert(hash_map, Head(deposit_info_list).btc_deposit_address,
                            Head(deposit_info_list)),
            Tail(deposit_info_list))

\* mutant of create_hash_map_from_deposit_info_list: an address already in the map
\* keeps its first entry
create_hash_map_from_deposit_info_list_keeping_first(deposit_info_list) ==
    Ok(insert_all(EmptyHashMap, Reverse(deposit_info_list)))

create_hash_map_from_deposit_info_list(deposit_info_list) ==
    Ok(insert_all(EmptyHashMap, deposit_info_list))

(***************************************************************************)
(* filter_p2sh_deposit_txs and its predicates.                             *)
(***************************************************************************)
\* mutant of is_address_locked_to_pub_key: an address found in the registry counts
\* as locked
is_address_locked_to_pub_key_when_registered(network, enclave_public_key_slice, address_from_utxo, deposit_info) ==
    address_from_utxo \in DOMAIN deposit_info

is_address_locked_to_pub_key(network, enclave_public_key_slice, address_from_utxo, deposit_info) ==
    IF address_from_utxo \notin DOMAIN deposit_info THEN FALSE
    ELSE LET address_from_script ==
                 BtcAddress_p2sh(
                     get_p2sh_redeem_script_sig(
                         enclave_public_key_slice,
                         deposit_info[address_from_utxo].eth_address_and_nonce_hash),
                     network)
         IN  address_from_script = address_from_utxo

is_output_address_locked_to_pub_key(tx_output, network, enclave_public_key_slice, deposit_info) ==
    LET address_from_utxo == BtcAddress_from_script(tx_output.script_pubkey, network)
    IN  IF ~address_from_utxo.ok THEN FALSE
        ELSE is_address_locked_to_pub_key(network, enclave_public_key_slice,
                                          address_from_utxo.val, deposit_info)

is_output_address_in_hash_map(tx_output, deposit_info, network) ==
    LET address == BtcAddress_from_script(tx_output.script_pubkey, network)
    IN  IF ~address.ok THEN FALSE ELSE address.val \in DOMAIN deposit_info

\* mutant of filter_p2sh_deposit_txs: the deposit transactions are collected in
\* reverse order
filter_p2sh_deposit_txs_reversed(deposit_info, enclave_public_key_slice, txs, network) ==
    LET has_deposit(txdata) ==
            \E i \in 1..Len(txdata.output) :
                /\ is_p2sh(txdata.output[i].script_pubkey)
                /\ is_output_address_in_hash_map(txdata.output[i], deposit_info, network)
                /\ is_output_address_locked_to_pub_key(
                       txdata.output[i], network, enclave_public_key_slice, deposit_info)
    IN  Ok(Reverse(SelectSeq(txs, has_deposit)))

\* mutant of filter_p2sh_deposit_txs: the locked-to-enclave filter is left out
filter_p2sh_deposit_txs_without_lock_check(deposit_info, enclave_public_key_slice, txs, network) ==
    LET has_deposit(txdata) ==
            LET p2sh_outputs == SelectSeq(txdata.output,
                                    LAMBDA tx_out : is_p2sh(tx_out.script_pubkey))
                in_hash_map  == SelectSeq(p2sh_outputs,
                                    LAMBDA tx_out : is_output_address_in_hash_map(
                                                        tx_out, deposit_info, network))
            IN  Len(in_hash_map) > 0
    IN  Ok(SelectSeq(txs, has_deposit))

filter_p2sh_deposit_txs(deposit_info, enclave_public_key_slice, txs, network) ==
    LET has_deposit(txdata) ==
            LET p2sh_outputs == SelectSeq(txdata.output,
                                    LAMBDA tx_out : is_p2sh(tx_out.script_pubkey))
                in_hash_map  == SelectSeq(p2sh_outputs,
                                    LAMBDA tx_out : is_output_address_in_hash_map(
                                                        tx_out, deposit_info, network))
                locked       == SelectSeq(in_hash_map,
                                    LAMBDA tx_out : is_output_address_locked_to_pub_key(
                                                        tx_out, network,
                                                        enclave_public_key_slice,
                                                        deposit_info))
            IN  Len(locked) > 0
    IN  Ok(SelectSeq(txs, has_deposit))

(***************************************************************************)
(* State of a deposit-filter run: the registry is built from the block's   *)
(* deposit info list, the block's transactions are filtered, and single    *)
(* addresses are checked against the registry.                             *)
(***************************************************************************)
\* most entries in a block's deposit info list
MaxDeposits == 2
\* length of a compressed public key
PUB_KEY_LEN == 33

EnclaveKeys == {<<2>> \o Repeat(210, PUB_KEY_LEN - 1), <<3>> \o Repeat(77, PUB_KEY_LEN - 1)}

SampleKey == <<2>> \o Repeat(210, PUB_KEY_LEN - 1)

OtherKey == <<3>> \o Repeat(77, PUB_KEY_LEN - 1)

DerivationHashes == {Repeat(113, HASH_LEN), [i \in 1..HASH_LEN |-> 3 * i]}

SampleHash == Repeat(113, HASH_LEN)

OtherHash == [i \in 1..HASH_LEN |-> 3 * i]

FilterNetworks == {"Testnet", "Bitcoin"}

\* the deposit address derived from a key and a derivation hash
deposit_address(key, hash, network) ==
    BtcAddress_p2sh(get_p2sh_redeem_script_sig(key, hash), network)

\* a pay-to-pubkey-hash address, unrelated to any deposit
SamplePubkeyHashAddress ==
    [kind |-> "PubkeyHash", hash |-> hash160(OtherKey), network |-> "Testnet"]

SampleAddresses ==
    { deposit_address(SampleKey, SampleHash, "Testnet"),
      deposit_address(SampleKey, OtherHash, "Testnet"),
      deposit_address(OtherKey, SampleHash, "Testnet"),
      SamplePubkeyHashAddress }

DepositInfos ==
    { \* a deposit address derived from the enclave key and the entry's own hash
      [nonce |-> 1, eth_address |-> Repeat(1, ETH_ADDRESS_LEN),
       eth_address_and_nonce_hash |-> SampleHash,
       btc_deposit_address |-> deposit_address(SampleKey, SampleHash, "Testnet")],
      \* the same address entered with another hash
      [nonce |-> 2, eth_address |-> Repeat(2, ETH_ADDRESS_LEN),
       eth_address_and_nonce_hash |-> OtherHash,
       btc_deposit_address |-> deposit_address(SampleKey, SampleHash, "Testnet")],
      \* a pay-to-pubkey-hash address entered as a deposit address
      [nonce |-> 3, eth_address |-> Repeat(3, ETH_ADDRESS_LEN),
       eth_address_and_nonce_hash |-> SampleHash,
       btc_deposit_address |-> SamplePubkeyHashAddress],
      \* a deposit address derived from another key
      [nonce |-> 4, eth_address |-> Repeat(4, ETH_ADDRESS_LEN),
       eth_address_and_nonce_hash |-> SampleHash,
       btc_deposit_address |-> deposit_address(OtherKey, SampleHash, "Testnet")] }

DepositInfoLists == SeqsUpTo(DepositInfos, MaxDeposits)

OpReturnScript == push_slice(push_opcode(<<>>, "OP_RETURN"), Raw(<<1, 2, 3>>))

SampleTxs ==
    { [lock_time |-> 1,
       output |-> << [value |-> 10, script_pubkey |-> script_pubkey_of(SamplePubkeyHashAddress)],
                     [value |-> 20, script_pubkey |->
                         script_pubkey_of(deposit_address(SampleKey, SampleHash, "Testnet"))] >>],
      [lock_time |-> 2,
       output |-> << [value |-> 30, script_pubkey |-> script_pubkey_of(SamplePubkeyHashAddress)],
                     [value |-> 0, script_pubkey |-> OpReturnScript] >>],
      [lock_time |-> 3,
       output |-> << [value |-> 40, script_pubkey |->
                         script_pubkey_of(deposit_address(OtherKey, SampleHash, "Testnet"))] >>],
      [lock_time |-> 4, output |-> <<>>],
      \* a second deposit to the enclave's address, in two outputs
      [lock_time |-> 5,
       output |-> << [value |-> 50, script_pubkey |->
                         script_pubkey_of(deposit_address(SampleKey, SampleHash, "Testnet"))],
                     [value |-> 60, script_pubkey |->
                         script_pubkey_of(deposit_address(SampleKey, SampleHash, "Testnet"))] >>] }

TxLists == SeqsUpTo(SampleTxs, MaxTxs)

FilterInit ==
    /\ block_deposit_info_list \in DepositInfoLists
    /\ deposit_info_hash_map = NotRun
    /\ enclave_public_key \in EnclaveKeys
    /\ filter_network \in FilterNetworks
    /\ transactions \in TxLists
    /\ p2sh_deposit_txs = NotRun
    /\ candidate_address = SamplePubkeyHashAddress
    /\ address_locked = NotRun

CreateHashMap ==
    /\ ~HasRun(deposit_info_hash_map)
    /\ deposit_info_hash_map' = create_hash_map_from_deposit_info_list(block_deposit_info_list)
    /\ UNCHANGED <<block_deposit_info_list, enclave_public_key, filter_network, transactions,
                   p2sh_deposit_txs, candidate_address, address_locked>>
    /\ UNCHANGED <<codecVars, chainVars, callVars>>

FilterP2shDepositTxs ==
    /\ deposit_info_hash_map.ok
    /\ ~HasRun(p2sh_deposit_txs)
    /\ p2sh_deposit_txs' = filter_p2sh_deposit_txs(deposit_info_hash_map.val,
                                                   enclave_public_key, transactions,
                                                   filter_network)
    /\ UNCHANGED <<block_deposit_info_list, deposit_info_hash_map, enclave_public_key,
                   filter_network, transactions, candidate_address, address_locked>>
    /\ UNCHANGED <<codecVars, chainVars, callVars>>

CheckAddressLocked ==
    /\ deposit_info_hash_map.ok
    /\ ~HasRun(address_locked)
    /\ \E address \in SampleAddresses :
          /\ candidate_address' = address
          /\ address_locked' = Ok(is_address_locked_to_pub_key(
                                      filter_network, enclave_public_key, address,
                                      deposit_info_hash_map.val))
    /\ UNCHANGED <<block_deposit_info_list, deposit_info_hash_map, enclave_public_key,
                   filter_network, transactions, p2sh_deposit_txs>>
    /\ UNCHANGED <<codecVars, chainVars, callVars>>

FilterNext ==
    \/ CreateHashMap
    \/ FilterP2shDepositTxs
    \/ CheckAddressLocked

(***************************************************************************)
(* The destination chain: EthState (the block held in state and the        *)
(* key-value store), the initialisation steps of eth_init_utils.rs and     *)
(* the pointer tracker of spec section 4.5.                                *)
(***************************************************************************)
\* the store: put and get by key; a put fails while the store is unavailable
db_put(db, key, value) ==
    IF ~db.available THEN Err("storage failure")
    ELSE Ok([db EXCEPT !.store =
                [k \in (DOMAIN db.store) \cup {key} |->
                    IF k = key THEN value ELSE db.store[k]]])

db_get(db, key) ==
    IF key \in DOMAIN db.store THEN Ok(db.store[key]) ELSE Err("not in db")

EmptyStore == [k \in {} |-> 0]

put_eth_tail_block_hash_in_db(db, hash) == db_put(db, "tail_hash", hash)

put_eth_canon_block_hash_in_db(db, hash) == db_put(db, "canon_hash", hash)

put_eth_anchor_block_hash_in_db(db, hash) == db_put(db, "anchor_hash", hash)

put_eth_latest_block_hash_in_db(db, hash) == db_put(db, "latest_hash", hash)

put_eth_canon_to_tip_length_in_db(db, length) == db_put(db, "canon_to_tip_length", length)

put_eth_block_and_receipts_in_db(db, block) ==
    IF ~db.available THEN Err("storage failure")
    ELSE Ok([db EXCEPT !.blocks = db.blocks \cup {block}])

\* EthState::get_eth_block_and_receipts: the block in state, or an error
get_eth_block_and_receipts(state) == state.eth_block_and_receipts

\* a step's result: the state with the written store, or the write's error
with_db(state, put_result) ==
    IF put_result.ok THEN Ok([state EXCEPT !.db = put_result.val]) ELSE put_result

put_eth_tail_block_hash_in_db_and_return_state(state) ==
    LET block == get_eth_block_and_receipts(state)
    IN  IF ~block.ok THEN block
        ELSE with_db(state, put_eth_tail_block_hash_in_db(state.db, block.val.hash))

\* mutant of set_hash_from_block_in_state: a state without a block gives a default
\* hash instead of an error
set_hash_from_block_in_state_with_default_hash(state, hash_type) ==
    LET block == get_eth_block_and_receipts(state)
        hash  == IF block.ok THEN block.val.hash ELSE <<"default_hash", 0>>
    IN  with_db(state,
            CASE hash_type = "canon" -> put_eth_canon_block_hash_in_db(state.db, hash)
              [] hash_type = "latest" -> put_eth_latest_block_hash_in_db(state.db, hash)
              [] hash_type = "anchor" -> put_eth_anchor_block_hash_in_db(state.db, hash)
              [] OTHER -> Err("hash type not recognized"))

\* mutant of set_hash_from_block_in_state: the "latest" branch writes the canon hash
\* as well
set_hash_from_block_in_state_latest_writes_canon_too(state, hash_type) ==
    LET block == get_eth_block_and_receipts(state)
    IN  IF ~block.ok THEN block
        ELSE CASE hash_type = "canon" ->
                    with_db(state, put_eth_canon_block_hash_in_db(state.db, block.val.hash))
               [] hash_type = "latest" ->
                    LET latest == with_db(state, put_eth_latest_block_hash_in_db(
                                                     state.db, block.val.hash))
                    IN  IF ~latest.ok THEN latest
                        ELSE with_db(latest.val, put_eth_canon_block_hash_in_db(
                                                     latest.val.db, block.val.hash))
               [] hash_type = "anchor" ->
                    with_db(state, put_eth_anchor_block_hash_in_db(state.db, block.val.hash))
               [] OTHER -> Err("hash type not recognized")

\* mutant of set_hash_from_block_in_state: the "canon" branch writes the latest hash
set_hash_from_block_in_state_canon_as_latest(state, hash_type) ==
    LET block == get_eth_block_and_receipts(state)
    IN  IF ~block.ok THEN block
        ELSE with_db(state,
                CASE hash_type = "canon" ->
                        put_eth_latest_block_hash_in_db(state.db, block.val.hash)
                  [] hash_type = "latest" ->
                        put_eth_latest_block_hash_in_db(state.db, block.val.hash)
                  [] hash_type = "anchor" ->
                        put_eth_anchor_block_hash_in_db(state.db, block.val.hash)
                  [] OTHER -> Err("hash type not recognized"))

set_hash_from_block_in_state(state, hash_type) ==
    LET block == get_eth_block_and_receipts(state)
    IN  IF ~block.ok THEN block
        ELSE with_db(state,
                CASE hash_type = "canon" ->
                        put_eth_canon_block_hash_in_db(state.db, block.val.hash)
                  [] hash_type = "latest" ->
                        put_eth_latest_block_hash_in_db(state.db, block.val.hash)
                  [] hash_type = "anchor" ->
                        put_eth_anchor_block_hash_in_db(state.db, block.val.hash)
                  [] OTHER -> Err("hash type not recognized"))

set_eth_latest_block_hash_and_return_state(state) ==
    set_hash_from_block_in_state(state, "latest")

\* mutant of set_eth_anchor_block_hash_and_return_state: the wrong hash type is named
set_eth_anchor_block_hash_and_return_state_as_canon(state) ==
    set_hash_from_block_in_state(state, "canon")

set_eth_anchor_block_hash_and_return_state(state) ==
    set_hash_from_block_in_state(state, "anchor")

set_eth_canon_block_hash_and_return_state(state) ==
    set_hash_from_block_in_state(state, "canon")

put_canon_to_tip_length_in_db_and_return_state(canon_to_tip_length, state) ==
    with_db(state, put_eth_canon_to_tip_length_in_db(state.db, canon_to_tip_length))

add_eth_block_to_db_and_return_state(state) ==
    LET block == get_eth_block_and_receipts(state)
    IN  IF ~block.ok THEN block
        ELSE with_db(state, put_eth_block_and_receipts_in_db(state.db, block.val))

(***************************************************************************)
(* The pointer tracker (spec section 4.5): on ingesting a block, latest    *)
(* moves to it, canon moves to the block canon_to_tip_length behind latest *)
(* once latest is that far ahead, and tail follows canon at the retention  *)
(* window.  Anchor is not written.                                         *)
(***************************************************************************)
\* blocks kept behind canon before tail moves on
RetentionWindow == 2

\* the destination chain's block at a height
eth_block(number) == [hash |-> <<"eth_block", number>>, number |-> number]

block_by_hash(db, hash) == CHOOSE b \in db.blocks : b.hash = hash

block_at_height(db, number) == CHOOSE b \in db.blocks : b.number = number

pointer_height(db, key) == block_by_hash(db, db.store[key]).number

Max(a, b) == IF a >= b THEN a ELSE b

\* mutant of advance_canon: canon moves to latest itself
advance_canon_to_latest(db) ==
    LET latest == pointer_height(db, "latest_hash")
        canon  == pointer_height(db, "canon_hash")
        depth  == db.store["canon_to_tip_length"]
    IN  IF latest - canon >= depth
        THEN put_eth_canon_block_hash_in_db(db, block_at_height(db, latest).hash)
        ELSE Ok(db)

advance_canon(db) ==
    LET latest == pointer_height(db, "latest_hash")
        canon  == pointer_height(db, "canon_hash")
        depth  == db.store["canon_to_tip_length"]
    IN  IF latest - canon >= depth
        THEN put_eth_canon_block_hash_in_db(db, block_at_height(db, latest - depth).hash)
        ELSE Ok(db)

advance_tail(db) ==
    LET canon == pointer_height(db, "canon_hash")
        tail  == pointer_height(db, "tail_hash")
    IN  put_eth_tail_block_hash_in_db(
            db, block_at_height(db, Max(tail, canon - RetentionWindow)).hash)

ingest_block(db, block) ==
    LET stored == put_eth_block_and_receipts_in_db(db, block)
    IN  IF ~stored.ok THEN stored
        ELSE LET latest == put_eth_latest_block_hash_in_db(stored.val, block.hash)
             IN  IF ~latest.ok THEN latest
                 ELSE LET canon == advance_canon(latest.val)
                      IN  IF ~canon.ok THEN canon ELSE advance_tail(canon.val)

InitSteps == {"tail", "latest", "anchor", "canon", "canon_to_tip_length", "add_block"}

InitComplete == init_steps_done = InitSteps

EmptyDb == [store |-> EmptyStore, blocks |-> {}, available |-> TRUE]

ChainInit ==
    /\ setup_block \in {Err("no block in state"), Ok(eth_block(0)), Ok(eth_block(1))}
    /\ configured_canon_to_tip_length \in 0..MaxDepth
    /\ eth_state = [db |-> EmptyDb, eth_block_and_receipts |-> setup_block]
    /\ init_steps_done = {}
    /\ init_error = NotRun

\* one initialisation step: it runs once, while no earlier step has failed
run_init_step(step, result) ==
    /\ step \notin init_steps_done
    /\ ~HasRun(init_error)
    /\ IF result.ok
       THEN /\ eth_state' = result.val
            /\ init_steps_done' = init_steps_done \cup {step}
            /\ UNCHANGED init_error
       ELSE /\ init_error' = result
            /\ UNCHANGED <<eth_state, init_steps_done>>
    /\ UNCHANGED <<setup_block, configured_canon_to_tip_length>>
    /\ UNCHANGED <<codecVars, filterVars, callVars>>

PutEthTailBlockHash ==
    run_init_step("tail", put_eth_tail_block_hash_in_db_and_return_state(eth_state))

SetEthLatestBlockHash ==
    run_init_step("latest", set_eth_latest_block_hash_and_return_state(eth_state))

SetEthAnchorBlockHash ==
    run_init_step("anchor", set_eth_anchor_block_hash_and_return_state(eth_state))

SetEthCanonBlockHash ==
    run_init_step("canon", set_eth_canon_block_hash_and_return_state(eth_state))

PutCanonToTipLength ==
    run_init_step("canon_to_tip_length",
                  put_canon_to_tip_length_in_db_and_return_state(configured_canon_to_tip_length,
                                                                 eth_state))

AddEthBlockToDb ==
    run_init_step("add_block", add_eth_block_to_db_and_return_state(eth_state))

\* the store becomes unavailable: every later put fails
StorageFails ==
    /\ eth_state.db.available
    /\ eth_state' = [eth_state EXCEPT !.db.available = FALSE]
    /\ UNCHANGED <<setup_block, configured_canon_to_tip_length, init_steps_done, init_error>>
    /\ UNCHANGED <<codecVars, filterVars, callVars>>

\* the next block of the chain is ingested; a failed ingestion writes nothing
IngestBlock ==
    /\ InitComplete
    /\ pointer_height(eth_state.db, "latest_hash") < MaxHeight
    /\ LET block == eth_block(pointer_height(eth_state.db, "latest_hash") + 1)
           result == ingest_block(eth_state.db, block)
       IN  /\ result.ok
           /\ eth_state' = [db |-> result.val, eth_block_and_receipts |-> Ok(block)]
    /\ UNCHANGED <<setup_block, configured_canon_to_tip_length, init_steps_done, init_error>>
    /\ UNCHANGED <<codecVars, filterVars, callVars>>

ChainNext ==
    \/ PutEthTailBlockHash
    \/ SetEthLatestBlockHash
    \/ SetEthAnchorBlockHash
    \/ SetEthCanonBlockHash
    \/ PutCanonToTipLength
    \/ AddEthBlockToDb
    \/ StorageFails
    \/ IngestBlock

(***************************************************************************)
(* Calls of the stateless functions: a call takes its arguments from the   *)
(* samples below and leaves what it returned; a call that panics leaves    *)
(* Abort.                                                                  *)
(***************************************************************************)
\* most inputs and outputs of a transaction whose size is estimated
MaxInputs == 3
MaxOutputs == 3

NoCall == [op |-> "none", args |-> <<>>]

\* the call panicked: no value was returned
Abort == [ok |-> FALSE, val |-> "abort"]

Aborted(r) == r = Abort

\* bytes the store may hand back under the network key
StoredNetworkBytes ==
    {convert_u64_to_bytes(n) : n \in {0, 1, 2, 3, 255, 256, 16777217}}
        \cup {<<>>, <<0>>, <<1>>, <<2>>, <<1, 0, 0, 0, 0, 0, 0>>, <<2, 0, 0, 0>>,
              <<1, 0, 0, 0, 0, 0, 0, 0, 0>>, <<0, 0, 0, 0, 0, 0, 0, 0, 2>>}

(***************************************************************************)
(* calculate_btc_tx_size / calculate_btc_tx_fee.  The counts are usize     *)
(* values small enough for the size to fit; the fee rate is a u64, kept as *)
(* its 8 little-endian bytes so that the 64-bit product keeps its width.   *)
(***************************************************************************)
\* btc_constants::PTOKEN_P2SH_SCRIPT_BYTES, as should_calculate_btc_tx_size pins it:
\* calculate_btc_tx_size(1, 1) is 193 = 148 + 34 + 10 + 1
PTOKEN_P2SH_SCRIPT_BYTES == 0

\* mutant of calculate_btc_tx_size: the byte per input is left out
calculate_btc_tx_size_without_input_byte(num_inputs, num_outputs) ==
    (num_inputs * (148 + PTOKEN_P2SH_SCRIPT_BYTES)) + (num_outputs * 34) + 10

calculate_btc_tx_size(num_inputs, num_outputs) ==
    (num_inputs * (148 + PTOKEN_P2SH_SCRIPT_BYTES)) + (num_outputs * 34) + 10 + num_inputs

\* column k of the schoolbook product of two little-endian byte strings
RECURSIVE column_sum(_, _, _, _)
column_sum(a, b, k, i) ==
    IF i > Len(a) THEN 0
    ELSE (IF k + 1 - i \in 1..Len(b) THEN a[i] * b[k + 1 - i] ELSE 0)
             + column_sum(a, b, k, i + 1)

RECURSIVE carry_into(_, _, _)
carry_into(a, b, k) ==
    IF k = 1 THEN 0
    ELSE (column_sum(a, b, k - 1, 1) + carry_into(a, b, k - 1)) \div 256

\* the full product of two u64, as 16 little-endian bytes
wide_mul(a, b) ==
    [k \in 1..(2 * U64_NUM_BYTES) |->
        (column_sum(a, b, k, 1) + carry_into(a, b, k)) % 256]

\* a * b on u64: the low 8 bytes of the product; when the product does not fit, a
\* build with overflow checks panics and a build without them keeps the low bytes
u64_mul(a, b) ==
    LET product == wide_mul(a, b)
        low     == SubSeq(product, 1, U64_NUM_BYTES)
        high    == SubSeq(product, U64_NUM_BYTES + 1, 2 * U64_NUM_BYTES)
    IN  IF high = Repeat(0, U64_NUM_BYTES) THEN {Ok(low)} ELSE {Ok(low), Abort}

\* the outcomes of calculate_btc_tx_fee
calculate_btc_tx_fee(num_inputs, num_outputs, sats_per_byte) ==
    u64_mul(convert_u64_to_bytes(calculate_btc_tx_size(num_inputs, num_outputs)),
            sats_per_byte)

\* fee rates: small ones, the largest one whose fee for a size of 193 fits in a u64,
\* the next one, 2^32, 2^63 and the largest u64
SatsPerByte ==
    { convert_u64_to_bytes(0), convert_u64_to_bytes(1), convert_u64_to_bytes(1000),
      <<0, 0, 0, 0, 1, 0, 0, 0>>,
      <<172, 254, 64, 143, 148, 144, 83, 1>>,
      <<173, 254, 64, 143, 148, 144, 83, 1>>,
      <<0, 0, 0, 0, 0, 0, 0, 128>>,
      Repeat(255, U64_NUM_BYTES) }

(***************************************************************************)
(* base58::from / base58::encode_slice: base 58 over byte strings, without *)
(* a checksum; a text is a sequence of characters.  A leading "1" stands   *)
(* for a leading zero byte, the rest is the number in big-endian bytes.    *)
(***************************************************************************)
BASE58_CHARS ==
    <<"1", "2", "3", "4", "5", "6", "7", "8", "9", "A", "B", "C", "D", "E", "F", "G",
      "H", "J", "K", "L", "M", "N", "P", "Q", "R", "S", "T", "U", "V", "W", "X", "Y",
      "Z", "a", "b", "c", "d", "e", "f", "g", "h", "i", "j", "k", "m", "n", "o", "p",
      "q", "r", "s", "t", "u", "v", "w", "x", "y", "z">>

is_base58_char(c) == \E i \in DOMAIN BASE58_CHARS : BASE58_CHARS[i] = c

base58_digit(c) == (CHOOSE i \in DOMAIN BASE58_CHARS : BASE58_CHARS[i] = c) - 1

\* x * m + carry on a little-endian byte string without high zero bytes
RECURSIVE mul_add_le(_, _, _)
mul_add_le(le, m, carry) ==
    IF le = <<>>
    THEN IF carry = 0 THEN <<>> ELSE <<carry % 256>> \o mul_add_le(<<>>, m, carry \div 256)
    ELSE LET v == Head(le) * m + carry
         IN  <<v % 256>> \o mul_add_le(Tail(le), m, v \div 256)

\* the number a text of base58 characters stands for, little-endian
RECURSIVE base58_number(_, _)
base58_number(chars, acc) ==
    IF chars = <<>> THEN acc
    ELSE base58_number(Tail(chars), mul_add_le(acc, 58, base58_digit(Head(chars))))

RECURSIVE leading(_, _)
leading(s, x) == IF s # <<>> /\ Head(s) = x THEN 1 + leading(Tail(s), x) ELSE 0

from_base58(text) ==
    IF \E i \in 1..Len(text) : ~is_base58_char(text[i]) THEN Err("base58: bad byte")
    ELSE Ok(Repeat(0, leading(text, "1")) \o Reverse(base58_number(text, <<>>)))

\* a big-endian byte string divided by 58: quotient and remainder
RECURSIVE quot58(_, _)
quot58(be, r) ==
    IF be = <<>> THEN <<>>
    ELSE LET v == r * 256 + Head(be) IN <<v \div 58>> \o quot58(Tail(be), v % 58)

RECURSIVE rem58(_, _)
rem58(be, r) == IF be = <<>> THEN r ELSE rem58(Tail(be), (r * 256 + Head(be)) % 58)

skip_zeros(be) == SubSeq(be, leading(be, 0) + 1, Len(be))

RECURSIVE base58_digits(_)
base58_digits(be) ==
    IF be = <<>> THEN <<>>
    ELSE base58_digits(skip_zeros(quot58(be, 0))) \o <<BASE58_CHARS[rem58(be, 0) + 1]>>

base58_encode_slice(bytes) ==
    Repeat("1", leading(bytes, 0)) \o base58_digits(skip_zeros(bytes))

(***************************************************************************)
(* Addresses as text: to bytes and back, the pay-to-pubkey-hash script of  *)
(* an address and the output paying to it.                                 *)
(***************************************************************************)
convert_btc_address_to_bytes(btc_address) == from_base58(btc_address)

\* mutant of convert_bytes_to_btc_address: leading zero bytes are not written
convert_bytes_to_btc_address_without_leading_zeros(encoded_bytes) ==
    base58_digits(skip_zeros(encoded_bytes))

convert_bytes_to_btc_address(encoded_bytes) == base58_encode_slice(encoded_bytes)

\* bytes[1..21]: the slice panics when fewer than 21 bytes were decoded
convert_btc_address_to_pub_key_hash_bytes(btc_address) ==
    LET decoded == from_base58(btc_address)
    IN  IF ~decoded.ok THEN decoded
        ELSE IF Len(decoded.val) < 21 THEN Abort
        ELSE Ok(SubSeq(decoded.val, 2, 21))

get_pay_to_pub_key_hash_script(btc_address) ==
    LET pub_key_hash == convert_btc_address_to_pub_key_hash_bytes(btc_address)
    IN  IF ~pub_key_hash.ok THEN pub_key_hash
        ELSE Ok(push_opcode(
                    push_opcode(
                        push_slice(
                            push_opcode(push_opcode(<<>>, "OP_DUP"), "OP_HASH160"),
                            Raw(pub_key_hash.val)),
                        "OP_EQUALVERIFY"),
                    "OP_CHECKSIG"))

create_new_tx_output(value, script) == Ok([value |-> value, script_pubkey |-> script])

create_new_pay_to_pub_key_hash_output(value, recipient) ==
    LET script == get_pay_to_pub_key_hash_script(recipient)
    IN  IF ~script.ok THEN script ELSE create_new_tx_output(value, script.val)

\* the address of the tests, and what it decodes to
SAMPLE_TARGET_BTC_ADDRESS ==
    <<"m", "o", "B", "S", "Q", "b", "H", "n", "7", "N", "9", "B", "C", "9", "p", "d", "t",
      "A", "M", "n", "A", "7", "G", "B", "i", "A", "L", "z", "N", "M", "Q", "J", "y", "E">>

SampleTargetBtcAddressBytes ==
    <<111, 84, 16, 39, 131, 200, 100, 12, 81, 68, 208, 57, 206, 165, 62, 183, 219, 180,
      112, 8, 20, 98, 251, 175, 217>>

\* address texts: two addresses (the second one has leading zero bytes), texts that
\* decode to fewer than 21 bytes, texts with a character outside the alphabet
AddressTexts ==
    { SAMPLE_TARGET_BTC_ADDRESS,
      Repeat("1", 21) \o <<"4", "o", "L", "v", "T", "2">>,
      Repeat("1", 19) \o <<"z", "z", "z", "z">>,
      <<>>, <<"1">>, <<"1", "1", "2">>, <<"2", "N">>, <<"z", "z", "z", "z">>,
      <<"0">>, <<"m", "O", "l">>, <<"t", "b", "1", "q", "0">> }

OutputValues == {0, 1, 5000}

(***************************************************************************)
(* create_unsigned_utxo_from_tx and                                        *)
(* create_op_return_btc_utxo_and_value_from_tx_output.  The id of a        *)
(* transaction is a hash of it, kept as a term.                            *)
(***************************************************************************)
\* largest output index asked for
MaxOutputIndex == 2

\* btc_constants::DEFAULT_BTC_SEQUENCE as the four bytes it is serialized to
DEFAULT_BTC_SEQUENCE == Repeat(255, 4)

None == Err("None")

txid(tx) == [sha256d_of |-> tx]

\* consensus serialization of an input: outpoint, script, sequence
serialize_btc_utxo(btc_utxo) ==
    <<btc_utxo.previous_output.txid, le_digits(btc_utxo.previous_output.vout, 4),
      btc_utxo.script_sig, btc_utxo.sequence>>

deserialize_btc_utxo(bytes) ==
    IF Len(bytes) # 4 \/ Len(bytes[2]) # 4 \/ Len(bytes[4]) # 4
    THEN Err("unexpected end of input")
    ELSE Ok([witness |-> <<>>,
             previous_output |-> [txid |-> bytes[1], vout |-> le_value(bytes[2])],
             sequence |-> bytes[4],
             script_sig |-> bytes[3]])

\* mutant of create_unsigned_utxo_from_tx: the placeholder script is left empty
create_unsigned_utxo_from_tx_with_empty_script(tx, output_index) ==
    IF output_index >= Len(tx.output) THEN Abort
    ELSE Ok([witness |-> <<>>,
             previous_output |-> [txid |-> txid(tx), vout |-> output_index],
             sequence |-> DEFAULT_BTC_SEQUENCE,
             script_sig |-> <<>>])

\* tx.output[output_index] panics when the index is out of range
create_unsigned_utxo_from_tx(tx, output_index) ==
    IF output_index >= Len(tx.output) THEN Abort
    ELSE LET outpoint == [txid |-> txid(tx), vout |-> output_index]
         IN  Ok([witness |-> <<>>,
                 previous_output |-> outpoint,
                 sequence |-> DEFAULT_BTC_SEQUENCE,
                 script_sig |-> tx.output[output_index + 1].script_pubkey])

BtcUtxoAndValue_new(value, utxo, maybe_extra_data, maybe_pointer) ==
    [value |-> value,
     serialized_utxo |-> serialize_btc_utxo(utxo),
     maybe_extra_data |-> maybe_extra_data,
     maybe_pointer |-> maybe_pointer,
     maybe_deposit_info_json |-> None]

create_op_return_btc_utxo_and_value_from_tx_output(tx, output_index) ==
    IF output_index >= Len(tx.output) THEN Abort
    ELSE LET utxo == create_unsigned_utxo_from_tx(tx, output_index)
         IN  IF ~utxo.ok THEN utxo
             ELSE Ok(BtcUtxoAndValue_new(tx.output[output_index + 1].value, utxo.val,
                                         None, None))

CallsInit ==
    /\ call = NoCall
    /\ outcome = NotRun

ConvertStoredBytesToNetwork ==
    /\ call = NoCall
    /\ \E bytes \in StoredNetworkBytes :
          /\ call' = [op |-> "convert_bytes_to_btc_network", args |-> <<bytes>>]
          /\ outcome' = convert_bytes_to_btc_network(bytes)
    /\ UNCHANGED <<codecVars, filterVars, chainVars>>

CalculateBtcTxSize ==
    /\ call = NoCall
    /\ \E num_inputs \in 0..MaxInputs, num_outputs \in 0..MaxOutputs :
          /\ call' = [op |-> "calculate_btc_tx_size", args |-> <<num_inputs, num_outputs>>]
          /\ outcome' = Ok(calculate_btc_tx_size(num_inputs, num_outputs))
    /\ UNCHANGED <<codecVars, filterVars, chainVars>>

CalculateBtcTxFee ==
    /\ call = NoCall
    /\ \E num_inputs \in 0..MaxInputs, num_outputs \in 0..MaxOutputs,
          sats_per_byte \in SatsPerByte :
          /\ call' = [op |-> "calculate_btc_tx_fee",
                      args |-> <<num_inputs, num_outputs, sats_per_byte>>]
          /\ outcome' \in calculate_btc_tx_fee(num_inputs, num_outputs, sats_per_byte)
    /\ UNCHANGED <<codecVars, filterVars, chainVars>>

\* convert_btc_address_to_bytes, and convert_bytes_to_btc_address of its bytes
ConvertAddressToBytesAndBack ==
    /\ call = NoCall
    /\ \E btc_address \in AddressTexts :
          /\ call' = [op |-> "convert_btc_address_to_bytes", args |-> <<btc_address>>]
          /\ outcome' =
                LET bytes == convert_btc_address_to_bytes(btc_address)
                IN  IF ~bytes.ok THEN bytes
                    ELSE Ok([bytes |-> bytes.val,
                             address |-> convert_bytes_to_btc_address(bytes.val)])
    /\ UNCHANGED <<codecVars, filterVars, chainVars>>

CreateNewPayToPubKeyHashOutput ==
    /\ call = NoCall
    /\ \E value \in OutputValues, recipient \in AddressTexts :
          /\ call' = [op |-> "create_new_pay_to_pub_key_hash_output",
                      args |-> <<value, recipient>>]
          /\ outcome' = create_new_pay_to_pub_key_hash_output(value, recipient)
    /\ UNCHANGED <<codecVars, filterVars, chainVars>>

CreateUnsignedUtxoFromTx ==
    /\ call = NoCall
    /\ \E tx \in SampleTxs, output_index \in 0..MaxOutputIndex :
          /\ call' = [op |-> "create_unsigned_utxo_from_tx", args |-> <<tx, output_index>>]
          /\ outcome' = create_unsigned_utxo_from_tx(tx, output_index)
    /\ UNCHANGED <<codecVars, filterVars, chainVars>>

CreateOpReturnBtcUtxoAndValueFromTxOutput ==
    /\ call = NoCall
    /\ \E tx \in SampleTxs, output_index \in 0..MaxOutputIndex :
          /\ call' = [op |-> "create_op_return_btc_utxo_and_value_from_tx_output",
                      args |-> <<tx, output_index>>]
          /\ outcome' = create_op_return_btc_utxo_and_value_from_tx_output(tx, output_index)
    /\ UNCHANGED <<codecVars, filterVars, chainVars>>

CallsNext ==
    \/ ConvertStoredBytesToNetwork
    \/ CalculateBtcTxSize
    \/ CalculateBtcTxFee
    \/ ConvertAddressToBytesAndBack
    \/ CreateNewPayToPubKeyHashOutput
    \/ CreateUnsignedUtxoFromTx
    \/ CreateOpReturnBtcUtxoAndValueFromTxOutput

(***************************************************************************)
(* The specifications: one per part of the core; the parts share no state, *)
(* and the variables of the others stay at rest.                           *)
(***************************************************************************)
CodecAtRest ==
    /\ block_in_db_format =
           [id |-> Repeat(171, HASH_LEN), block |-> [version |-> 1, txdata |-> <<>>],
            height |-> 0, extra_data |-> <<>>, minting_params |-> <<>>]
    /\ serialized = NotRun
    /\ stored_payload = MalformedJson
    /\ corruption = "none"
    /\ deserialized = NotRun
    /\ minting_params_bytes = NotRun
    /\ deserialized_minting_params = NotRun
    /\ btc_network = "Bitcoin"
    /\ network_bytes = NotRun
    /\ network_from_bytes = NotRun

FilterAtRest ==
    /\ block_deposit_info_list = <<>>
    /\ deposit_info_hash_map = NotRun
    /\ enclave_public_key = SampleKey
    /\ filter_network = "Testnet"
    /\ transactions = <<>>
    /\ p2sh_deposit_txs = NotRun
    /\ candidate_address = SamplePubkeyHashAddress
    /\ address_locked = NotRun

ChainAtRest ==
    /\ setup_block = Err("no block in state")
    /\ configured_canon_to_tip_length = 0
    /\ eth_state = [db |-> EmptyDb, eth_block_and_receipts |-> setup_block]
    /\ init_steps_done = {}
    /\ init_error = NotRun

CallsAtRest ==
    /\ call = NoCall
    /\ outcome = NotRun

InitCodec == CodecInit /\ FilterAtRest /\ ChainAtRest /\ CallsAtRest

SpecCodec == InitCodec /\ [][CodecNext]_vars

InitFilter == FilterInit /\ CodecAtRest /\ ChainAtRest /\ CallsAtRest

SpecFilter == InitFilter /\ [][FilterNext]_vars

InitChain == ChainInit /\ CodecAtRest /\ FilterAtRest /\ CallsAtRest

SpecChain == InitChain /\ [][ChainNext]_vars

InitCalls == CallsInit /\ CodecAtRest /\ FilterAtRest /\ ChainAtRest

SpecCalls == InitCalls /\ [][CallsNext]_vars

(***************************************************************************)
(* The claims.                                                             *)
(***************************************************************************)

\* C1: reading back the payload that serialize_btc_block_in_db_format returned for a
\* block record succeeds and yields a record equal to it in id, height, block,
\* extra_data and minting_params.
C1_BlockRecordRoundTrip ==
    /\ HasRun(serialized) => serialized.ok
    /\ (HasRun(deserialized) /\ corruption = "none") =>
          /\ deserialized.ok
          /\ deserialized.val.id = block_in_db_format.id
          /\ deserialized.val.height = block_in_db_format.height
          /\ deserialized.val.block = block_in_db_format.block
          /\ deserialized.val.extra_data = block_in_db_format.extra_data
          /\ deserialized.val.minting_params = block_in_db_format.minting_params

C1_Witness ==
    /\ deserialized.ok
    /\ corruption = "none"
    /\ block_in_db_format.height = 70000
    /\ block_in_db_format.block.txdata # <<>>
    /\ block_in_db_format.extra_data # <<>>
    /\ Len(block_in_db_format.minting_params) = 2

\* C2: the key returned by serialize_btc_block_in_db_format is the record's block
\* hash, the same bytes are the id member of the payload, and the id read back from
\* the payload equals the key.
C2_KeyIsBlockId ==
    /\ serialized.ok =>
          /\ serialized.val.key = block_in_db_format.id
          /\ json_member(serialized.val.payload.doc, "id") = Ok(serialized.val.key)
    /\ (deserialized.ok /\ corruption = "none") =>
          deserialized.val.id = serialized.val.key

C2_Witness ==
    /\ deserialized.ok
    /\ corruption = "none"
    /\ serialized.val.key[1] # serialized.val.key[HASH_LEN]

\* C3: deserialize_minting_params of what serialize_minting_params returned succeeds
\* and yields a list of the same length with the same element at every index, the
\* empty list included.
C3_MintingParamsRoundTrip ==
    /\ HasRun(minting_params_bytes) => minting_params_bytes.ok
    /\ HasRun(deserialized_minting_params) =>
          /\ deserialized_minting_params.ok
          /\ Len(deserialized_minting_params.val) = Len(block_in_db_format.minting_params)
          /\ \A i \in 1..Len(block_in_db_format.minting_params) :
                deserialized_minting_params.val[i] = block_in_db_format.minting_params[i]

C3_Witness ==
    /\ deserialized_minting_params.ok
    /\ Len(block_in_db_format.minting_params) = 2
    /\ block_in_db_format.minting_params[1] # block_in_db_format.minting_params[2]
    /\ block_in_db_format.minting_params[1].amount > 0

\* C10: each of the three networks is encoded as the 8-byte integer 0 (Bitcoin),
\* 1 (Testnet) or 2 (Regtest), and decoding the encoding returns the network.
C10_NetworkRoundTrip ==
    /\ HasRun(network_bytes) =>
          /\ network_bytes.ok
          /\ Len(network_bytes.val) = 8
          /\ convert_bytes_to_u64(network_bytes.val) =
                Ok(CASE btc_network = "Bitcoin" -> 0
                     [] btc_network = "Testnet" -> 1
                     [] btc_network = "Regtest" -> 2)
    /\ HasRun(network_from_bytes) => network_from_bytes = Ok(btc_network)

C10_Witness == network_from_bytes = Ok("Regtest")

\* an output that is script-hash type, whose address is a key of the registry and
\* is the address derived from the enclave key and that entry's derivation hash
is_deposit_output(tx_out, registry, key, network) ==
    /\ is_p2sh(tx_out.script_pubkey)
    /\ LET address == BtcAddress_from_script(tx_out.script_pubkey, network)
       IN  /\ address.ok
           /\ address.val \in DOMAIN registry
           /\ deposit_address(key, registry[address.val].eth_address_and_nonce_hash,
                              network) = address.val

has_deposit_output(tx) ==
    \E i \in 1..Len(tx.output) :
        is_deposit_output(tx.output[i], deposit_info_hash_map.val, enclave_public_key,
                          filter_network)

\* C4: filter_p2sh_deposit_txs keeps a transaction iff at least one of its outputs is
\* script-hash type, has its address in the registry, and that address is the one
\* derived from the enclave key and the entry's derivation hash; every other
\* transaction is left out.
C4_FilterRetainsIffDepositOutput ==
    HasRun(p2sh_deposit_txs) =>
        /\ p2sh_deposit_txs.ok
        /\ p2sh_deposit_txs.val = SelectSeq(transactions, has_deposit_output)
        /\ \A i \in 1..Len(p2sh_deposit_txs.val) :
              \E j \in 1..Len(p2sh_deposit_txs.val[i].output) :
                  is_p2sh(p2sh_deposit_txs.val[i].output[j].script_pubkey)

\* a transaction is kept, another is left out although the address of its
\* pay-to-pubkey-hash output is in the registry
C4_Witness ==
    /\ p2sh_deposit_txs.ok
    /\ Len(p2sh_deposit_txs.val) = 1
    /\ Len(transactions) = 2
    /\ SamplePubkeyHashAddress \in DOMAIN deposit_info_hash_map.val
    /\ \E i \in 1..2 :
          /\ transactions[i] # p2sh_deposit_txs.val[1]
          /\ transactions[i].output # <<>>
          /\ is_p2pkh(transactions[i].output[1].script_pubkey)

\* C5: is_address_locked_to_pub_key is true iff the address is a key of the registry
\* and equals the address derived from the enclave key, the entry's derivation hash
\* and the network; otherwise it is the boolean false.
C5_LockedIffRegisteredAndDerived ==
    HasRun(address_locked) =>
        /\ address_locked.ok
        /\ address_locked.val \in BOOLEAN
        /\ address_locked.val =
              (/\ candidate_address \in DOMAIN deposit_info_hash_map.val
               /\ deposit_address(
                      enclave_public_key,
                      deposit_info_hash_map.val[candidate_address].eth_address_and_nonce_hash,
                      filter_network) = candidate_address)

C5_Witness == address_locked = Ok(TRUE)

\* keys and hashes an input of the check may be replaced by
ReplacementKeys ==
    EnclaveKeys \cup {<<>>, <<2>>, <<2>> \o Repeat(210, PUB_KEY_LEN - 2),
                      <<2>> \o Repeat(210, PUB_KEY_LEN)}

ReplacementHashes == DerivationHashes \cup {Repeat(0, HASH_LEN), Repeat(117, HASH_LEN)}

\* C6: when the check is true for an address, a key and the registry's derivation
\* hash for that address, it is false with the key replaced by another key, with the
\* hash replaced by another hash, and with the address replaced by another address.
C6_ChangingOneInputUnlocks ==
    address_locked = Ok(TRUE) =>
        LET registry == deposit_info_hash_map.val
            entry    == registry[candidate_address]
        IN  /\ \A key \in ReplacementKeys \ {enclave_public_key} :
                  ~is_address_locked_to_pub_key(filter_network, key, candidate_address,
                                                registry)
            /\ \A hash \in ReplacementHashes \ {entry.eth_address_and_nonce_hash} :
                  ~is_address_locked_to_pub_key(
                       filter_network, enclave_public_key, candidate_address,
                       hash_map_insert(registry, candidate_address,
                                       [entry EXCEPT !.eth_address_and_nonce_hash = hash]))
            /\ \A address \in SampleAddresses \ {candidate_address} :
                  ~is_address_locked_to_pub_key(
                       filter_network, enclave_public_key, address,
                       hash_map_insert(registry, address,
                                       [entry EXCEPT !.btc_deposit_address = address]))

C6_Witness ==
    /\ address_locked = Ok(TRUE)
    /\ enclave_public_key = OtherKey

\* what the store holds for the pointers
latest_height == pointer_height(eth_state.db, "latest_hash")

canon_height == pointer_height(eth_state.db, "canon_hash")

tail_height == pointer_height(eth_state.db, "tail_hash")

stored_depth == eth_state.db.store["canon_to_tip_length"]

\* C7: with the chain ingested from height 0 on, canon is exactly
\* canon_to_tip_length behind latest in every state where latest has reached that
\* depth, and no ingestion lowers canon.
C7_CanonLagsLatestByDepth ==
    /\ [](InitComplete /\ setup_block = Ok(eth_block(0)) /\ latest_height >= stored_depth
             => canon_height = latest_height - stored_depth)
    /\ [][InitComplete =>
             pointer_height(eth_state'.db, "canon_hash") >= canon_height]_vars

C7_Witness ==
    /\ InitComplete
    /\ setup_block = Ok(eth_block(0))
    /\ stored_depth = 2
    /\ latest_height = 5
    /\ canon_height = 3

\* C8: once the pointers are initialised, tail height <= canon height <= latest
\* height in every state, and the anchor pointer is the hash of the block it was
\* initialised with, whatever has been ingested since.
C8_PointerOrderAndFixedAnchor ==
    /\ InitComplete => (tail_height <= canon_height /\ canon_height <= latest_height)
    /\ "anchor" \in init_steps_done =>
          db_get(eth_state.db, "anchor_hash") = Ok(setup_block.val.hash)

C8_Witness ==
    /\ InitComplete
    /\ 0 < tail_height
    /\ tail_height < canon_height
    /\ canon_height < latest_height
    /\ db_get(eth_state.db, "anchor_hash") = Ok(eth_block(0).hash)

PointerSteps == {"tail", "latest", "anchor", "canon", "canon_to_tip_length"}

\* C9: once put tail hash, set latest hash, set anchor hash, set canon hash and put
\* canon_to_tip_length have all returned Ok on a state holding the setup block, the
\* stored latest, canon, anchor and tail hashes are that block's hash and the stored
\* canon_to_tip_length is the configured one, in whatever order the steps ran.
C9_InitialPointersAreSetupBlock ==
    (PointerSteps \subseteq init_steps_done /\ eth_state.eth_block_and_receipts = setup_block) =>
        /\ setup_block.ok
        /\ db_get(eth_state.db, "latest_hash") = Ok(setup_block.val.hash)
        /\ db_get(eth_state.db, "canon_hash") = Ok(setup_block.val.hash)
        /\ db_get(eth_state.db, "anchor_hash") = Ok(setup_block.val.hash)
        /\ db_get(eth_state.db, "tail_hash") = Ok(setup_block.val.hash)
        /\ db_get(eth_state.db, "canon_to_tip_length") = Ok(configured_canon_to_tip_length)

C9_Witness ==
    /\ init_steps_done = PointerSteps
    /\ setup_block = Ok(eth_block(1))
    /\ configured_canon_to_tip_length = 3
    /\ db_get(eth_state.db, "canon_hash") = Ok(eth_block(1).hash)

\* the network a well-formed 8-byte encoding stands for
network_of_encoding(bytes) ==
    IF bytes = convert_u64_to_bytes(1) THEN "Testnet"
    ELSE IF bytes = convert_u64_to_bytes(2) THEN "Regtest"
    ELSE "Bitcoin"

\* C11 as stated: convert_bytes_to_btc_network returns Bitcoin for every input other
\* than the encodings of 1 and 2, bytes that are no 8-byte integer included, and
\* never returns an error.
C11_DecoderNeverFails ==
    call.op = "convert_bytes_to_btc_network" =>
        outcome = Ok(network_of_encoding(call.args[1]))

\* C11: convert_bytes_to_btc_network returns Bitcoin for every 8-byte input other
\* than the encodings of 1 and 2; for an input that is not 8 bytes long it returns
\* the error of the integer conversion, without aborting.
C11_DecoderFallsBackOnEightBytes ==
    call.op = "convert_bytes_to_btc_network" =>
        IF Len(call.args[1]) = U64_NUM_BYTES
        THEN outcome = Ok(network_of_encoding(call.args[1]))
        ELSE Failed(outcome) /\ ~Aborted(outcome)

C11_Witness ==
    /\ call.op = "convert_bytes_to_btc_network"
    /\ call.args[1] = convert_u64_to_bytes(16777217)
    /\ outcome = Ok("Bitcoin")

\* the last entry of a deposit info list that carries an address
last_entry_with(list, address) ==
    list[CHOOSE i \in 1..Len(list) :
            /\ list[i].btc_deposit_address = address
            /\ \A j \in (i + 1)..Len(list) : list[j].btc_deposit_address # address]

\* C12: create_hash_map_from_deposit_info_list returns Ok; the keys of the map are
\* exactly the deposit addresses of the list, each key maps to the last list entry
\* with that address, so every key is the deposit address of its value, and the map
\* has as many keys as the list has entries when the addresses are pairwise distinct.
C12_HashMapLastWriteWins ==
    HasRun(deposit_info_hash_map) =>
        /\ deposit_info_hash_map.ok
        /\ LET hash_map == deposit_info_hash_map.val
               list     == block_deposit_info_list
           IN  /\ DOMAIN hash_map = {list[i].btc_deposit_address : i \in 1..Len(list)}
               /\ \A address \in DOMAIN hash_map :
                     /\ hash_map[address] = last_entry_with(list, address)
                     /\ hash_map[address].btc_deposit_address = address
               /\ (\A i, j \in 1..Len(list) :
                      i # j => list[i].btc_deposit_address # list[j].btc_deposit_address)
                  => Cardinality(DOMAIN hash_map) = Len(list)

\* two different entries with the same address: the second one is in the map
C12_Witness ==
    /\ deposit_info_hash_map.ok
    /\ Len(block_deposit_info_list) = 2
    /\ block_deposit_info_list[1] # block_deposit_info_list[2]
    /\ block_deposit_info_list[1].btc_deposit_address =
          block_deposit_info_list[2].btc_deposit_address
    /\ deposit_info_hash_map.val[block_deposit_info_list[2].btc_deposit_address] =
          block_deposit_info_list[2]

\* C13 as stated: for all counts and every u64 fee rate, calculate_btc_tx_fee returns
\* the mathematical product of calculate_btc_tx_size and the rate: the 64-bit
\* multiplication neither wraps nor aborts.
C13_FeeIsProduct ==
    call.op = "calculate_btc_tx_fee" =>
        /\ outcome.ok
        /\ outcome.val \o Repeat(0, U64_NUM_BYTES) =
              wide_mul(convert_u64_to_bytes(
                           calculate_btc_tx_size(call.args[1], call.args[2])),
                       call.args[3])

\* byte length of the redeem script of a deposit address
redeem_script_len == Len(script_as_bytes(get_p2sh_redeem_script_sig(SampleKey, SampleHash)))

C15_MalformedAddressIsAnError ==
    call.op = "create_new_pay_to_pub_key_hash_output" =>
        LET value     == call.args[1]
            recipient == call.args[2]
            decoded   == from_base58(recipient)
        IN  IF decoded.ok /\ Len(decoded.val) >= 21
            THEN /\ outcome.ok
                 /\ outcome.val.value = value
                 /\ Ok(outcome.val.script_pubkey) = get_pay_to_pub_key_hash_script(recipient)
            ELSE Failed(outcome) /\ ~Aborted(outcome)

\* C19: for every address text that convert_btc_address_to_bytes accepts,
\* convert_bytes_to_btc_address of the bytes is the text again; the address of the
\* tests is accepted and gives the 25 bytes of the tests.
C19_AddressBytesRoundTrip ==
    call.op = "convert_btc_address_to_bytes" =>
        /\ outcome.ok => outcome.val.address = call.args[1]
        /\ call.args[1] = SAMPLE_TARGET_BTC_ADDRESS =>
              outcome.ok /\ outcome.val.bytes = SampleTargetBtcAddressBytes

\* an address with leading zero bytes has gone to bytes and back
C19_Witness ==
    /\ call.op = "convert_btc_address_to_bytes"
    /\ outcome.ok
    /\ Len(outcome.val.bytes) = 25
    /\ outcome.val.bytes[1] = 0
    /\ outcome.val.address = call.args[1]

\* every part of a stored payload parses: the envelope, the height, the id, the
\* minting params and the block
all_parts_parse(payload) ==
    /\ payload.wellformed
    /\ \A name \in {"id", "block", "height", "extra_data", "minting_params"} :
          json_member(payload.doc, name).ok
    /\ convert_bytes_to_u64(json_member(payload.doc, "height").val).ok
    /\ sha256d_from_slice(json_member(payload.doc, "id").val).ok
    /\ deserialize_minting_params(json_member(payload.doc, "minting_params").val).ok
    /\ btc_deserialize(json_member(payload.doc, "block").val).ok

\* C16: deserialize_btc_block_in_db_format returns an error and no record when the
\* envelope, the height, the id, the minting params or the block of the payload
\* does not parse, and a record only when all of them parse.
C16_CorruptRecordIsAnError ==
    HasRun(deserialized) =>
        /\ corruption # "none" => Failed(deserialized)
        /\ deserialized.ok <=> all_parts_parse(stored_payload)

\* a payload whose height lost a byte was read
C16_Witness ==
    /\ Failed(deserialized)
    /\ corruption = "height"
    /\ block_in_db_format.minting_params # <<>>

\* the initialisation steps that read the block from the state
BlockReadingSteps == {"tail", "latest", "anchor", "canon", "add_block"}

\* C17: while the state holds no block, no step that reads the block returns Ok and
\* the store holds no hash and no block; the step that returns the first error
\* leaves the store as it was; and once a step has failed, no later step writes.
C17_FailedStepWritesNothing ==
    /\ [](~setup_block.ok =>
             /\ init_steps_done \cap BlockReadingSteps = {}
             /\ DOMAIN eth_state.db.store \subseteq {"canon_to_tip_length"}
             /\ eth_state.db.blocks = {})
    /\ [][(HasRun(init_error') /\ ~HasRun(init_error)) => eth_state' = eth_state]_vars
    /\ [][HasRun(init_error) =>
             /\ eth_state'.db.store = eth_state.db.store
             /\ eth_state'.db.blocks = eth_state.db.blocks
             /\ init_steps_done' = init_steps_done]_vars

\* a step failed for want of a block after canon_to_tip_length was written
C17_Witness ==
    /\ init_error = Err("no block in state")
    /\ init_steps_done = {"canon_to_tip_length"}
    /\ db_get(eth_state.db, "canon_to_tip_length") = Ok(2)

\* the input the claim describes for output i of a transaction
unsigned_input_of(tx, i) ==
    [witness |-> <<>>,
     previous_output |-> [txid |-> txid(tx), vout |-> i],
     sequence |-> <<255, 255, 255, 255>>,
     script_sig |-> tx.output[i + 1].script_pubkey]

\* C18: for an output index of the transaction, create_unsigned_utxo_from_tx returns
\* an input whose previous output is (txid, index), whose script_sig is the locking
\* script of that output, whose sequence is ffffffff and whose witness is empty;
\* create_op_return_btc_utxo_and_value_from_tx_output holds that input serialized,
\* the value of the output, and no pointer, extra data or deposit info.
C18_UnsignedUtxoCopiesLockingScript ==
    /\ (call.op = "create_unsigned_utxo_from_tx" /\ call.args[2] < Len(call.args[1].output))
          => outcome = Ok(unsigned_input_of(call.args[1], call.args[2]))
    /\ (/\ call.op = "create_op_return_btc_utxo_and_value_from_tx_output"
        /\ call.args[2] < Len(call.args[1].output))
          => /\ outcome.ok
             /\ outcome.val.value = call.args[1].output[call.args[2] + 1].value
             /\ deserialize_btc_utxo(outcome.val.serialized_utxo) =
                   Ok(unsigned_input_of(call.args[1], call.args[2]))
             /\ outcome.val.maybe_pointer = None
             /\ outcome.val.maybe_extra_data = None
             /\ outcome.val.maybe_deposit_info_json = None

\* the second output of a transaction was turned into a utxo and value
C18_Witness ==
    /\ call.op = "create_op_return_btc_utxo_and_value_from_tx_output"
    /\ call.args[2] = 1
    /\ outcome.ok
    /\ outcome.val.value = 20

\* s is t with some elements left out, the others in their order
RECURSIVE is_subsequence(_, _)
is_subsequence(s, t) ==
    IF s = <<>> THEN TRUE
    ELSE IF t = <<>> THEN FALSE
    ELSE IF Head(s) = Head(t) THEN is_subsequence(Tail(s), Tail(t))
    ELSE is_subsequence(s, Tail(t))

\* C20: filter_p2sh_deposit_txs returns Ok; its result is the transaction list with
\* some transactions left out and the others unchanged in their order; filtering
\* the result again with the same registry, key and network returns the result;
\* with an empty registry the result is empty.
C20_FilterIsIdempotentSubsequence ==
    HasRun(p2sh_deposit_txs) =>
        /\ p2sh_deposit_txs.ok
        /\ is_subsequence(p2sh_deposit_txs.val, transactions)
        /\ filter_p2sh_deposit_txs(deposit_info_hash_map.val, enclave_public_key,
                                   p2sh_deposit_txs.val, filter_network) = p2sh_deposit_txs
        /\ DOMAIN deposit_info_hash_map.val = {} => p2sh_deposit_txs.val = <<>>

\* two different deposit transactions in one list: those kept are in the
\* list's order
C20_Witness ==
    /\ p2sh_deposit_txs.ok
    /\ Len(p2sh_deposit_txs.val) = 2
    /\ p2sh_deposit_txs.val[1].lock_time = 5
    /\ p2sh_deposit_txs.val[2].lock_time = 1

\* the key each pointer-initialisation step persists
PointerKeyOfStep ==
    [step \in {"tail", "latest", "anchor", "canon"} |->
        CASE step = "tail" -> "tail_hash"
          [] step = "latest" -> "latest_hash"
          [] step = "anchor" -> "anchor_hash"
          [] step = "canon" -> "canon_hash"]

\* the setter each pointer-initialisation step calls, applied to a state
pointer_setter_result(step, state) ==
    CASE step = "tail" -> put_eth_tail_block_hash_in_db_and_return_state(state)
      [] step = "latest" -> set_eth_latest_block_hash_and_return_state(state)
      [] step = "anchor" -> set_eth_anchor_block_hash_and_return_state(state)
      [] step = "canon" -> set_eth_canon_block_hash_and_return_state(state)

\* after differs from before in the value under key alone, which is the hash of the
\* block in state; the stored blocks and the block in state are as before
wrote_only(before, after, key) ==
    /\ DOMAIN after.db.store = DOMAIN before.db.store \cup {key}
    /\ \A k \in DOMAIN before.db.store \ {key} : after.db.store[k] = before.db.store[k]
    /\ before.eth_block_and_receipts.ok
    /\ after.db.store[key] = before.eth_block_and_receipts.val.hash
    /\ after.db.blocks = before.db.blocks
    /\ after.db.available = before.db.available
    /\ after.eth_block_and_receipts = before.eth_block_and_receipts

\* C21: each of the four pointer setters, when it returns Ok, returns the state
\* with its own key (tail_hash, latest_hash, anchor_hash, canon_hash) set to the hash
\* of the block in state and every other key, the stored blocks and the block in
\* state unchanged; none of the three set_..._and_return_state setters returns the
\* "hash type not recognized" error; and the step that runs a setter changes the
\* persisted state in exactly that way.
C21_SetterWritesOnlyItsKey ==
    /\ [](\A step \in DOMAIN PointerKeyOfStep :
             LET result == pointer_setter_result(step, eth_state)
             IN  /\ result.ok => wrote_only(eth_state, result.val, PointerKeyOfStep[step])
                 /\ result # Err("hash type not recognized"))
    /\ [](init_error # Err("hash type not recognized"))
    /\ [][\A step \in DOMAIN PointerKeyOfStep :
             (step \in init_steps_done' /\ step \notin init_steps_done) =>
                 wrote_only(eth_state, eth_state', PointerKeyOfStep[step])]_vars

\* the four setters have run, before canon_to_tip_length is stored and the block
\* added: the store holds their four keys and nothing else
C21_Witness ==
    /\ init_steps_done = DOMAIN PointerKeyOfStep
    /\ DOMAIN eth_state.db.store = {"tail_hash", "latest_hash", "anchor_hash", "canon_hash"}
    /\ eth_state.db.blocks = {}
    /\ eth_state.eth_block_and_receipts = Ok(eth_block(1))

=============================================================================
